---- MODULE Spec2Model ----
(***************************************************************************)
(* Model of httpr: an http.RoundTripper that retries requests according to *)
(* a RetryPolicy.  The module covers the retry predicate and the backoff   *)
(* function of policy.go, the options, New, Set and the attempt loop of    *)
(* Transport.RoundTrip, for one or several RoundTrip calls on one          *)
(* Transport.                                                              *)
(*                                                                         *)
(* time.Duration is an int64 counting nanoseconds.  TLC's integers are     *)
(* narrower than that, so a Duration is kept as its 64-bit two's           *)
(* complement pattern: a tuple of eight base-256 limbs, least significant  *)
(* first.                                                                  *)
(*                                                                         *)
(* The Transport is shared memory and nothing synchronises it.  Its        *)
(* fields are separate words: a store of a whole RetryPolicy writes them   *)
(* one at a time, in an order the build chooses, and the steps of the      *)
(* other goroutines fall between these writes.                             *)
(***************************************************************************)
EXTENDS Integers, Sequences, FiniteSets, TLC

VARIABLES
    goarch,     \* the build target; it decides the float64 -> int64 conversion of out-of-range values
    fn,         \* pure-function specifications: the function under evaluation and its inputs
    fnResult,   \* pure-function specifications: whether the call returned, and its value
    env,        \* what the surroundings of this run do: the target's answers, failures, cancellations
    configured, \* the Transport as the caller's options left it, before any default is substituted
    applied,    \* history: every option applied to the Transport, by New and by Set, in order
    tr,         \* the Transport: tr.tr the underlying transport, tr.rp the retry policy
    written,    \* history: the fields of the Transport that RoundTrip calls have written
    sets,       \* the number of Set calls begun
    setting,    \* the running Set call: the options it has still to apply, and the
                \* fields of the policy it is storing that are still to be written
    backoffCalls, \* the count the function made by ExponentialBackoff() keeps of its calls
    req,        \* per call: the request r of RoundTrip: r.Body and r.GetBody
    ctxDone,    \* per call: r.Context().Done() is closed
    pc,         \* per call: position of the RoundTrip call
    storeLeft,  \* per call: the fields of tr.rp = defaultRetryPolicy() still to be written
    backoff,    \* per call, RoundTrip local: backoff
    retries,    \* per call, RoundTrip local: retries
    resp,       \* per call, RoundTrip local: resp of the last attempt
    rerr,       \* per call, RoundTrip local: err of the last attempt
    delay,      \* per call, RoundTrip local: delay
    timerFired, \* per call: the channel of time.After(delay) holds its value
    chosen,     \* per call: the case the select statement proceeds with
    wasParked,  \* per call: the select statement blocked before a case was chosen
    ret,        \* per call: what RoundTrip returned
    exit,       \* per call: the return statement RoundTrip left by
    decided,    \* per call, history: the predicate and the MaxRetries each evaluation of line 78 read
    outcomes,   \* per call, history: the (resp, err) of every attempt of the underlying transport
    sent,       \* per call, history: the state of r.Body handed to the underlying transport at every attempt
    respBodies, \* per call, history: the state of the body of every attempt's response
    delays      \* per call, history: every delay the backoff function returned, with its inputs

pureVars == <<goarch, fn, fnResult>>

sharedVars == <<env, configured, applied, tr, written, sets, setting, backoffCalls>>

perCallVars == <<req, ctxDone, pc, storeLeft, backoff, retries, resp, rerr, delay, timerFired,
                 chosen, wasParked, ret, exit, decided, outcomes, sent, respBodies, delays>>

callVars == <<sharedVars, perCallVars>>

vars == <<pureVars, sharedVars, perCallVars>>

\* The RoundTrip calls of this run.
Calls == DOMAIN pc

(***************************************************************************)
(* Bounds                                                                  *)
(***************************************************************************)
MaxRetriesBound == 2     \* the largest MaxRetries of the sampled policies

MaxOptions == 2          \* the longest option list given to New

JitterSpan == 3          \* jitter offsets -JitterSpan..JitterSpan are all enumerated

MaxStatusCode == 599     \* the status codes the predicate is evaluated on: 0..MaxStatusCode

MaxRetryIndex == 64      \* the retry indexes the backoff is evaluated on: 0..MaxRetryIndex

MaxCalls == 2            \* the RoundTrip calls that run concurrently on one Transport

(***************************************************************************)
(* int64 arithmetic                                                        *)
(***************************************************************************)
\* The int64 with the value n, for 0 <= n < 2^31.
I64(n) ==
    <<n % 256, (n \div 256) % 256, (n \div 65536) % 256, (n \div 16777216) % 256, 0, 0, 0, 0>>

MinInt64 == <<0, 0, 0, 0, 0, 0, 0, 128>>

MaxInt64 == <<255, 255, 255, 255, 255, 255, 255, 127>>

RECURSIVE AddFrom(_, _, _, _)
AddFrom(x, y, k, carry) ==
    IF k > 8 THEN <<>>
    ELSE <<(x[k] + y[k] + carry) % 256>> \o AddFrom(x, y, k + 1, (x[k] + y[k] + carry) \div 256)

\* x + y, wrapping modulo 2^64.
Add64(x, y) == AddFrom(x, y, 1, 0)

RECURSIVE NotFrom(_, _)
NotFrom(x, k) == IF k > 8 THEN <<>> ELSE <<255 - x[k]>> \o NotFrom(x, k + 1)

\* -x, wrapping modulo 2^64.
Neg64(x) == AddFrom(NotFrom(x, 1), I64(0), 1, 1)

\* The int64 with the value n, for -2^31 < n < 2^31.
S64(n) == IF n < 0 THEN Neg64(I64(-n)) ELSE I64(n)

Sub64(x, y) == Add64(x, Neg64(y))

RECURSIVE MulColumn(_, _, _, _)
MulColumn(x, y, k, i) ==
    IF i > k THEN 0 ELSE x[i] * y[k + 1 - i] + MulColumn(x, y, k, i + 1)

RECURSIVE MulFrom(_, _, _, _)
MulFrom(x, y, k, carry) ==
    IF k > 8 THEN <<>>
    ELSE <<(MulColumn(x, y, k, 1) + carry) % 256>>
         \o MulFrom(x, y, k + 1, (MulColumn(x, y, k, 1) + carry) \div 256)

\* x * y, wrapping modulo 2^64 (Go's integer multiplication).
Mul64(x, y) == MulFrom(x, y, 1, 0)

IsNeg64(x) == x[8] >= 128

RECURSIVE ULt64From(_, _, _)
ULt64From(x, y, k) ==
    IF x[k] # y[k] THEN x[k] < y[k]
    ELSE IF k = 1 THEN FALSE
    ELSE ULt64From(x, y, k - 1)

\* x < y on the unsigned reading of the patterns.
ULt64(x, y) == ULt64From(x, y, 8)

\* x < y on int64.
Lt64(x, y) ==
    IF IsNeg64(x) # IsNeg64(y) THEN IsNeg64(x) ELSE ULt64(x, y)

Ge64(x, y) == ~Lt64(x, y)

Le64(x, y) == ~Lt64(y, x)

\* Long division of the unsigned pattern x by a small n, from the top limb
\* down: the quotient's limbs 1..k, given the remainder of the limbs above k.
RECURSIVE DivFrom(_, _, _, _)
DivFrom(x, n, k, rem) ==
    IF k < 1 THEN <<>>
    ELSE DivFrom(x, n, k - 1, (rem * 256 + x[k]) % n) \o <<(rem * 256 + x[k]) \div n>>

DivSmall(x, n) == DivFrom(x, n, 8, 0)

RECURSIVE RemFrom(_, _, _)
RemFrom(x, n, k) ==
    IF k > 8 THEN 0 ELSE (RemFrom(x, n, k + 1) * 256 + x[k]) % n

ModSmall(x, n) == RemFrom(x, n, 1)

\* floor(d * pct / 100) and ceil(d * pct / 100) for d >= 0, without overflow.
PctFloor(d, pct) ==
    Add64(Mul64(DivSmall(d, 100), I64(pct)), I64((ModSmall(d, 100) * pct) \div 100))

PctCeil(d, pct) ==
    IF (ModSmall(d, 100) * pct) % 100 = 0 THEN PctFloor(d, pct)
    ELSE Add64(PctFloor(d, pct), I64(1))

(***************************************************************************)
(* policy.go                                                               *)
(***************************************************************************)
NilErr == "nil"

NilResp == [nil |-> TRUE, StatusCode |-> 0]

Response(code) == [nil |-> FALSE, StatusCode |-> code]

\* The three ways a call of a predicate ends: it returns true, it returns
\* false, or it panics on a nil pointer dereference.
StandardShouldRetry_NoServerErrors(r, err) ==
    IF err # NilErr THEN "true"
    ELSE IF r.nil THEN "panic"
    ELSE IF r.StatusCode \in {0, 408, 429} THEN "true"
    ELSE "false"

StandardShouldRetry(r, err) ==
    IF err # NilErr THEN "true"
    ELSE IF r.nil THEN "panic"                        \* r.StatusCode with r == nil
    ELSE IF r.StatusCode = 0 THEN "true"
    ELSE IF r.StatusCode \in {408, 429} THEN "true"
    ELSE IF r.StatusCode \in {500, 502, 503, 504} THEN "true"
    ELSE "false"

\* time.Duration(math.Pow(2, float64(retry))): math.Pow is exact on powers of
\* two; a float64 outside the int64 range converts to an
\* implementation-dependent value: 0x8000000000000000 on amd64, the
\* saturated maximum on arm64.
RECURSIVE Pow2From(_, _)
Pow2From(retry, k) ==
    IF k > 8 THEN <<>>
    ELSE <<IF k - 1 = retry \div 8 THEN 2 ^ (retry % 8) ELSE 0>> \o Pow2From(retry, k + 1)

Pow2Duration(retry) ==
    IF retry <= 62 THEN Pow2From(retry, 1)
    ELSE IF goarch = "amd64" THEN MinInt64 ELSE MaxInt64

ExponentialBackoff(minDelay, maxDelay, retry) ==
    LET d == Mul64(minDelay, Pow2Duration(retry))
    IN  IF Ge64(d, maxDelay) THEN maxDelay ELSE d

\* The exponential backoff of the revision whose Backoff takes the jitter:
\* the delay of ExponentialBackoff, plus a random offset off in
\* [-jitter*d, +jitter*d) when jitter > 0, clamped to [0, maxDelay].
\* jitter is in percent.
Clamp64(x, lo, hi) == IF Lt64(x, lo) THEN lo ELSE IF Lt64(hi, x) THEN hi ELSE x

JitteredBackoff(minDelay, maxDelay, jitter, retry, off) ==
    LET d == ExponentialBackoff(minDelay, maxDelay, retry)
    IN  IF jitter = 0 THEN d ELSE Clamp64(Add64(d, off), I64(0), maxDelay)

\* The offsets the random source can produce for the delay d: the integers of
\* [-jitter*d, +jitter*d); none but 0 when that range is empty.
JitterOffsets(d, jitter) ==
    IF jitter = 0 \/ Le64(d, I64(0)) \/ PctCeil(d, jitter) = I64(0) THEN {I64(0)}
    ELSE {Neg64(PctFloor(d, jitter)), I64(0), Sub64(PctCeil(d, jitter), I64(1))}
         \cup {o \in {S64(n) : n \in -JitterSpan..JitterSpan} :
                 /\ Le64(Neg64(PctFloor(d, jitter)), o)
                 /\ Lt64(o, PctCeil(d, jitter))}

ZeroPolicy ==
    [ShouldRetry |-> "nil", Backoff |-> "nil", MinDelay |-> I64(0), MaxDelay |-> I64(0),
     MaxRetries |-> 0, Jitter |-> 0]

IsZero(rp) ==
    /\ rp.ShouldRetry = "nil"
    /\ rp.Backoff = "nil"
    /\ rp.MinDelay = I64(0)
    /\ rp.MaxDelay = I64(0)
    /\ rp.MaxRetries = 0

defaultRetryPolicy_TwoRetries ==
    [Backoff     |-> "exponential",
     ShouldRetry |-> "standard",
     MinDelay    |-> Mul64(I64(500), I64(1000000)),
     MaxDelay    |-> Mul64(I64(5), I64(1000000000)),
     MaxRetries  |-> 2,
     Jitter      |-> 0]

defaultRetryPolicy ==
    [Backoff     |-> "exponential",
     ShouldRetry |-> "standard",
     MinDelay    |-> Mul64(I64(500), I64(1000000)),
     MaxDelay    |-> Mul64(I64(5), I64(1000000000)),
     MaxRetries  |-> 3,
     Jitter      |-> 0]

(***************************************************************************)
(* options and construction                                                *)
(***************************************************************************)
WithRetryPolicy(retryPolicy) == [option |-> "WithRetryPolicy", rp |-> retryPolicy, tr |-> "nil"]

WithTransport(transport) == [option |-> "WithTransport", rp |-> ZeroPolicy, tr |-> transport]

WithNoRetries == [option |-> "WithNoRetries", rp |-> ZeroPolicy, tr |-> "nil"]

\* option(tr)
ApplyOption_NoRetriesLost(t, o) ==
    CASE o.option = "WithRetryPolicy" ->
            IF ~IsZero(o.rp) THEN [t EXCEPT !.rp = o.rp] ELSE t
      [] o.option = "WithTransport" -> [t EXCEPT !.tr = o.tr]
      [] o.option = "WithNoRetries" -> t

ApplyOption(t, o) ==
    CASE o.option = "WithRetryPolicy" ->
            IF ~IsZero(o.rp) THEN [t EXCEPT !.rp = o.rp] ELSE t
      [] o.option = "WithTransport" -> [t EXCEPT !.tr = o.tr]
      [] o.option = "WithNoRetries" -> [t EXCEPT !.rp.ShouldRetry = "never"]

\* for _, option := range options { option(tr) }
RECURSIVE ApplyOptions(_, _)
ApplyOptions(t, options) ==
    IF options = <<>> THEN t
    ELSE ApplyOptions(ApplyOption(t, Head(options)), Tail(options))

\* &Transport{}
TransportLiteral == [tr |-> "nil", rp |-> ZeroPolicy]

WithDefaults(t) ==
    LET t1 == IF t.tr = "nil" THEN [t EXCEPT !.tr = "DefaultTransport"] ELSE t
    IN  IF IsZero(t1.rp) THEN [t1 EXCEPT !.rp = defaultRetryPolicy] ELSE t1

New(options) == WithDefaults(ApplyOptions(TransportLiteral, options))


(***************************************************************************)
(* Inputs                                                                  *)
(***************************************************************************)
GoArchs == {"amd64", "arm64"}

\* 2^62 nanoseconds
HugeDelay == <<0, 0, 0, 0, 0, 0, 0, 64>>

PolicySamples ==
    {ZeroPolicy}
    \cup {[ShouldRetry |-> s, Backoff |-> "exponential", MinDelay |-> I64(1), MaxDelay |-> I64(5),
           MaxRetries |-> n, Jitter |-> 0] :
             s \in {"standard", "always"}, n \in -1..MaxRetriesBound}
    \cup {[ShouldRetry |-> "standard", Backoff |-> "exponential", MinDelay |-> I64(2),
           MaxDelay |-> I64(5), MaxRetries |-> MaxRetriesBound, Jitter |-> 50],
          [ShouldRetry |-> "nil", Backoff |-> "exponential", MinDelay |-> I64(1),
           MaxDelay |-> I64(5), MaxRetries |-> MaxRetriesBound, Jitter |-> 0],
          [ShouldRetry |-> "standard", Backoff |-> "nil", MinDelay |-> I64(1),
           MaxDelay |-> I64(5), MaxRetries |-> MaxRetriesBound, Jitter |-> 0],
          [ShouldRetry |-> "standard", Backoff |-> "exponential", MinDelay |-> HugeDelay,
           MaxDelay |-> MaxInt64, MaxRetries |-> MaxRetriesBound, Jitter |-> 50]}

OptionSamples ==
    {WithRetryPolicy(p) : p \in PolicySamples} \cup {WithTransport("custom"), WithNoRetries}

\* The options that are combined into longer lists.
CombinedOptionSamples ==
    {WithRetryPolicy(ZeroPolicy),
     WithRetryPolicy([ShouldRetry |-> "always", Backoff |-> "exponential", MinDelay |-> I64(1),
                      MaxDelay |-> I64(5), MaxRetries |-> 1, Jitter |-> 0]),
     WithTransport("custom"),
     WithNoRetries}

\* The option lists given to New: every sampled option alone, and the lists
\* of up to MaxOptions of the combined ones.
OptionSeqs ==
    {<<o>> : o \in OptionSamples}
    \cup UNION {[1..n -> CombinedOptionSamples] : n \in 0..MaxOptions}

\* A Transport comes from New(options...) or from the literal &Transport{}.
Constructions ==
    {[configured |-> ApplyOptions(TransportLiteral, o), applied |-> o, tr |-> New(o)] :
        o \in OptionSeqs}
    \cup {[configured |-> TransportLiteral, applied |-> <<>>, tr |-> TransportLiteral]}

\* GET without body; POST built by http.NewRequest (GetBody set); POST built
\* as a literal (no GetBody); POST whose GetBody fails.
RequestSamples ==
    {[Body |-> "nil", GetBody |-> "nil"],
     [Body |-> "unread", GetBody |-> "ok"],
     [Body |-> "unread", GetBody |-> "nil"],
     [Body |-> "unread", GetBody |-> "err"]}

StatusSamples == {200, 404, 503}

\* What one attempt of the underlying transport can return.  http.Transport
\* returns a response or an error; a RoundTripper given with WithTransport can
\* also return neither.
Outcomes(transport) ==
    {[resp |-> Response(c), err |-> NilErr] : c \in StatusSamples}
    \cup {[resp |-> NilResp, err |-> "transport"]}
    \cup (IF transport = "custom" THEN {[resp |-> NilResp, err |-> NilErr]} ELSE {})

\* The surroundings of a run: the status codes the target answers with,
\* whether connections fail, whether reading a response body fails, and
\* whether the callers cancel their requests; the option lists of the Set
\* calls made during the run, in order.
EnvAny ==
    [statuses |-> StatusSamples, connFails |-> TRUE, readFails |-> TRUE, cancels |-> TRUE,
     setCalls |-> <<>>]

\* The outcomes of an attempt in the surroundings e.
AttemptOutcomes(transport, e) ==
    {o \in Outcomes(transport) :
        /\ ~o.resp.nil => o.resp.StatusCode \in e.statuses
        /\ o.err # NilErr => e.connFails}

NoReturn == [resp |-> NilResp, err |-> "none"]

(***************************************************************************)
(* Transport.RoundTrip                                                     *)
(***************************************************************************)
PolicyFields == {"ShouldRetry", "Backoff", "MinDelay", "MaxDelay", "MaxRetries", "Jitter"}

\* The checks RoundTrip makes on tr before the loop, run to their end with
\* nothing in between.
RoundTripDefaults(t) ==
    LET t1 == IF t.tr = "nil" THEN [t EXCEPT !.tr = "DefaultTransport"] ELSE t
        t2 == IF IsZero(t1.rp) THEN [t1 EXCEPT !.rp = defaultRetryPolicy] ELSE t1
        t3 == IF t2.rp.ShouldRetry = "nil" THEN [t2 EXCEPT !.rp.ShouldRetry = "never"] ELSE t2
    IN  IF t3.rp.Backoff = "nil" THEN [t3 EXCEPT !.rp.Backoff = "zero"] ELSE t3

\* The positions of a call in front of the four checks and of
\* backoff := tr.rp.Backoff.
CheckPositions == <<"idle", "check2", "check3", "check4", "check5">>

CheckIndex(p) == CHOOSE i \in 1..5 : CheckPositions[i] = p

\* Where a call that resumes at check number from goes, when it reads the
\* Transport as t: to the first check that finds something to store, or past
\* them all into the loop.
NextWrite(t, from) ==
    IF from <= 1 /\ t.tr = "nil" THEN "storeTransport"
    ELSE IF from <= 2 /\ IsZero(t.rp) THEN "storeDefault"
    ELSE IF from <= 3 /\ t.rp.ShouldRetry = "nil" THEN "storeShouldRetry"
    ELSE IF from <= 4 /\ t.rp.Backoff = "nil" THEN "storeBackoff"
    ELSE "attempt"

\* tr.rp.ShouldRetry(resp, err): "never" is the func of WithNoRetries and of
\* the nil fallback, "always" a caller's predicate that retries everything;
\* the call of a nil func panics.
EvalShouldRetry(f, rsp, e) ==
    CASE f = "standard" -> StandardShouldRetry(rsp, e)
      [] f = "never" -> "false"
      [] f = "always" -> "true"
      [] f = "nil" -> "panic"

\* backoff(...): "zero" is the func of the nil fallback.
EvalBackoff_FallbackIsMinDelay(b, minDelay, maxDelay, jitter, retry, off) ==
    IF b = "zero" THEN minDelay
    ELSE JitteredBackoff(minDelay, maxDelay, jitter, retry, off)

EvalBackoff(b, minDelay, maxDelay, jitter, retry, off) ==
    IF b = "zero" THEN I64(0)
    ELSE JitteredBackoff(minDelay, maxDelay, jitter, retry, off)

EvalOffsets(b, minDelay, maxDelay, jitter, retry) ==
    IF b = "zero" THEN {I64(0)}
    ELSE JitterOffsets(ExponentialBackoff(minDelay, maxDelay, retry), jitter)

\* The function made by ExponentialBackoff() is called with minDelay,
\* maxDelay and jitter and no retry index: the index of its exponential is
\* the count it keeps of the calls made to it, 0 at its first call.  The
\* func of the nil fallback keeps no count.
BackoffIndex(b, calls) == IF b = "exponential" THEN calls ELSE 0

BackoffCallsAfter(b, calls) == IF b = "exponential" THEN calls + 1 ELSE calls

\* if !tr.rp.ShouldRetry(resp, err) || retries >= tr.rp.MaxRetries { return resp, err }
ShouldReturn_OffByOne(shouldRetry, n, maxRetries) ==
    shouldRetry = "false" \/ n > maxRetries

ShouldReturn_OneMore(shouldRetry, n, maxRetries) ==
    shouldRetry = "false" \/ n >= maxRetries + 1

ShouldReturn_And(shouldRetry, n, maxRetries) ==
    shouldRetry = "false" /\ n >= maxRetries

ShouldReturn_OnlyExhausted(shouldRetry, n, maxRetries) ==
    n >= maxRetries

ShouldReturn_MagnitudeOfMaxRetries(shouldRetry, n, maxRetries) ==
    shouldRetry = "false" \/ n >= (IF maxRetries < 0 THEN -maxRetries ELSE maxRetries)

ShouldReturn(shouldRetry, n, maxRetries) ==
    shouldRetry = "false" \/ n >= maxRetries

\* return resp, err
Returned_SyntheticError(rsp, e) ==
    IF e = NilErr /\ ~rsp.nil /\ rsp.StatusCode >= 500
    THEN [resp |-> NilResp, err |-> "retries exhausted"]
    ELSE [resp |-> rsp, err |-> e]

Returned(rsp, e) == [resp |-> rsp, err |-> e]

\* The body of a drained response is read to its end and closed; when the
\* read fails the deferred Close still runs.
drainResponse_NoDefer(rsp, copyFails) ==
    IF rsp.nil THEN [err |-> NilErr, body |-> "none"]
    ELSE IF copyFails THEN [err |-> "drain", body |-> "open"]
    ELSE [err |-> NilErr, body |-> "drained"]

drainResponse_NoCopy(rsp, copyFails) ==
    IF rsp.nil THEN [err |-> NilErr, body |-> "none"]
    ELSE IF copyFails THEN [err |-> "drain", body |-> "closed"]
    ELSE [err |-> NilErr, body |-> "closed"]

drainResponse(rsp, copyFails) ==
    IF rsp.nil THEN [err |-> NilErr, body |-> "none"]
    ELSE IF copyFails THEN [err |-> "drain", body |-> "closed"]
    ELSE [err |-> NilErr, body |-> "drained"]

\* The clone shares r.Body unless GetBody supplies a new one.
resetRequest_ErrorDropped(r) ==
    IF r.Body # "nil" /\ r.GetBody = "ok"
    THEN [req |-> [r EXCEPT !.Body = "unread"], err |-> NilErr]
    ELSE [req |-> r, err |-> NilErr]

resetRequest(r) ==
    IF r.Body # "nil" /\ r.GetBody # "nil"
    THEN IF r.GetBody = "err" THEN [req |-> r, err |-> "getbody"]
         ELSE [req |-> [r EXCEPT !.Body = "unread"], err |-> NilErr]
    ELSE [req |-> r, err |-> NilErr]

\* The checks before the loop, from the one the call stands in front of to
\* the first that stores something; past the last, backoff := tr.rp.Backoff.
Begin(c) ==
    /\ pc[c] \in {CheckPositions[i] : i \in 1..5}
    /\ LET next == NextWrite(tr, CheckIndex(pc[c]))
       IN  /\ pc' = [pc EXCEPT ![c] = next]
           /\ storeLeft' = [storeLeft EXCEPT ![c] =
                               IF next = "storeDefault"
                               THEN {f \in PolicyFields : defaultRetryPolicy[f] # tr.rp[f]}
                               ELSE {}]
           /\ backoff' = [backoff EXCEPT ![c] = IF next = "attempt" THEN tr.rp.Backoff ELSE @]
    /\ UNCHANGED <<req, ctxDone, retries, resp, rerr, delay, timerFired, chosen, wasParked,
                   ret, exit, decided, outcomes, sent, respBodies, delays>>
    /\ UNCHANGED <<pureVars, sharedVars>>

\* tr.tr = http.DefaultTransport
StoreTransport(c) ==
    /\ pc[c] = "storeTransport"
    /\ tr' = [tr EXCEPT !.tr = "DefaultTransport"]
    /\ written' = written \cup {"tr"}
    /\ pc' = [pc EXCEPT ![c] = "check2"]
    /\ UNCHANGED <<req, ctxDone, storeLeft, backoff, retries, resp, rerr, delay, timerFired,
                   chosen, wasParked, ret, exit, decided, outcomes, sent, respBodies, delays>>
    /\ UNCHANGED <<pureVars, env, configured, applied, sets, setting, backoffCalls>>

\* tr.rp = defaultRetryPolicy(): one field of the policy is written.
StoreDefault(c) ==
    /\ pc[c] = "storeDefault"
    /\ \E f \in storeLeft[c] :
        /\ tr' = [tr EXCEPT !.rp[f] = defaultRetryPolicy[f]]
        /\ storeLeft' = [storeLeft EXCEPT ![c] = @ \ {f}]
        /\ pc' = [pc EXCEPT ![c] = IF storeLeft[c] = {f} THEN "check3" ELSE @]
    /\ written' = written \cup {"rp"}
    /\ UNCHANGED <<req, ctxDone, backoff, retries, resp, rerr, delay, timerFired,
                   chosen, wasParked, ret, exit, decided, outcomes, sent, respBodies, delays>>
    /\ UNCHANGED <<pureVars, env, configured, applied, sets, setting, backoffCalls>>

\* tr.rp.ShouldRetry = func(r *http.Response, err error) bool { return false }
StoreShouldRetry(c) ==
    /\ pc[c] = "storeShouldRetry"
    /\ tr' = [tr EXCEPT !.rp.ShouldRetry = "never"]
    /\ written' = written \cup {"rp"}
    /\ pc' = [pc EXCEPT ![c] = "check4"]
    /\ UNCHANGED <<req, ctxDone, storeLeft, backoff, retries, resp, rerr, delay, timerFired,
                   chosen, wasParked, ret, exit, decided, outcomes, sent, respBodies, delays>>
    /\ UNCHANGED <<pureVars, env, configured, applied, sets, setting, backoffCalls>>

\* tr.rp.Backoff = func(...) time.Duration { return 0 }
StoreBackoff(c) ==
    /\ pc[c] = "storeBackoff"
    /\ tr' = [tr EXCEPT !.rp.Backoff = "zero"]
    /\ written' = written \cup {"rp"}
    /\ pc' = [pc EXCEPT ![c] = "check5"]
    /\ UNCHANGED <<req, ctxDone, storeLeft, backoff, retries, resp, rerr, delay, timerFired,
                   chosen, wasParked, ret, exit, decided, outcomes, sent, respBodies, delays>>
    /\ UNCHANGED <<pureVars, env, configured, applied, sets, setting, backoffCalls>>

\* What the underlying transport leaves of r.Body: it reads and closes the
\* body, or fails before it has read anything.
BodyAfterAttempt(body) == IF body = "nil" THEN {"nil"} ELSE {body, "consumed"}

\* resp, err := tr.tr.RoundTrip(r)
Attempt(c) ==
    /\ pc[c] = "attempt"
    /\ \E o \in AttemptOutcomes(tr.tr, env) :
        /\ resp' = [resp EXCEPT ![c] = o.resp]
        /\ rerr' = [rerr EXCEPT ![c] = o.err]
        /\ outcomes' = [outcomes EXCEPT ![c] = Append(@, o)]
        /\ respBodies' = [respBodies EXCEPT ![c] = Append(@, IF o.resp.nil THEN "none" ELSE "open")]
    /\ sent' = [sent EXCEPT ![c] = Append(@, req[c].Body)]
    /\ \E body \in BodyAfterAttempt(req[c].Body) : req' = [req EXCEPT ![c].Body = body]
    /\ pc' = [pc EXCEPT ![c] = "decide"]
    /\ UNCHANGED <<ctxDone, storeLeft, backoff, retries, delay, timerFired, chosen, wasParked,
                   ret, exit, decided, delays>>
    /\ UNCHANGED <<pureVars, sharedVars>>

\* Lines 78-82: the predicate and MaxRetries are read from tr.rp and
\* evaluated; unless the call returns, MinDelay, MaxDelay and Jitter are read
\* and handed to backoff.
Decide(c) ==
    /\ pc[c] = "decide"
    /\ decided' = [decided EXCEPT ![c] = Append(@, [ShouldRetry |-> tr.rp.ShouldRetry,
                                                     MaxRetries |-> tr.rp.MaxRetries])]
    /\ LET shouldRetry == EvalShouldRetry(tr.rp.ShouldRetry, resp[c], rerr[c])
       IN  IF shouldRetry = "panic"
           THEN /\ pc' = [pc EXCEPT ![c] = "panic"]
                /\ UNCHANGED <<ret, exit, delay, delays, timerFired, chosen, wasParked, backoffCalls>>
           ELSE IF ShouldReturn(shouldRetry, retries[c], tr.rp.MaxRetries)
           THEN /\ ret' = [ret EXCEPT ![c] = Returned(resp[c], rerr[c])]
                /\ exit' = [exit EXCEPT ![c] = "decided"]
                /\ pc' = [pc EXCEPT ![c] = "done"]
                /\ UNCHANGED <<delay, delays, timerFired, chosen, wasParked, backoffCalls>>
           ELSE IF backoff[c] = "nil"
           THEN /\ pc' = [pc EXCEPT ![c] = "panic"]
                /\ UNCHANGED <<ret, exit, delay, delays, timerFired, chosen, wasParked, backoffCalls>>
           ELSE /\ \E off \in EvalOffsets(backoff[c], tr.rp.MinDelay, tr.rp.MaxDelay,
                                          tr.rp.Jitter, BackoffIndex(backoff[c], backoffCalls)) :
                      delay' = [delay EXCEPT ![c] =
                                   EvalBackoff(backoff[c], tr.rp.MinDelay, tr.rp.MaxDelay,
                                               tr.rp.Jitter,
                                               BackoffIndex(backoff[c], backoffCalls), off)]
                /\ backoffCalls' = BackoffCallsAfter(backoff[c], backoffCalls)
                /\ delays' = [delays EXCEPT ![c] =
                                 Append(@, [retry |-> BackoffIndex(backoff[c], backoffCalls),
                                            delay |-> delay'[c],
                                            minDelay |-> tr.rp.MinDelay,
                                            maxDelay |-> tr.rp.MaxDelay])]
                /\ timerFired' = [timerFired EXCEPT ![c] = FALSE]
                /\ chosen' = [chosen EXCEPT ![c] = "none"]
                /\ wasParked' = [wasParked EXCEPT ![c] = FALSE]
                /\ pc' = [pc EXCEPT ![c] = "select"]
                /\ UNCHANGED <<ret, exit>>
    /\ UNCHANGED <<req, ctxDone, storeLeft, backoff, retries, resp, rerr, outcomes, sent,
                   respBodies>>
    /\ UNCHANGED <<pureVars, env, configured, applied, tr, written, sets, setting>>

\* The select statement polls its cases: it proceeds with one that is ready,
\* or blocks.
Select(c) ==
    /\ pc[c] = "select"
    /\ LET ready == (IF timerFired[c] THEN {"timer"} ELSE {})
                    \cup (IF ctxDone[c] THEN {"ctx"} ELSE {})
       IN  IF ready = {}
           THEN /\ pc' = [pc EXCEPT ![c] = "parked"]
                /\ wasParked' = [wasParked EXCEPT ![c] = TRUE]
                /\ UNCHANGED chosen
           ELSE /\ pc' = [pc EXCEPT ![c] = "case"]
                /\ \E k \in ready : chosen' = [chosen EXCEPT ![c] = k]
                /\ UNCHANGED wasParked
    /\ UNCHANGED <<req, ctxDone, storeLeft, backoff, retries, resp, rerr, delay, timerFired,
                   ret, exit, decided, outcomes, sent, respBodies, delays>>
    /\ UNCHANGED <<pureVars, sharedVars>>

\* The timer of time.After(delay) fires; it wakes a blocked select.
TimerFires(c) ==
    /\ pc[c] \in {"select", "parked"}
    /\ ~timerFired[c]
    /\ timerFired' = [timerFired EXCEPT ![c] = TRUE]
    /\ IF pc[c] = "parked"
       THEN pc' = [pc EXCEPT ![c] = "case"] /\ chosen' = [chosen EXCEPT ![c] = "timer"]
       ELSE UNCHANGED <<pc, chosen>>
    /\ UNCHANGED <<req, ctxDone, storeLeft, backoff, retries, resp, rerr, delay, wasParked,
                   ret, exit, decided, outcomes, sent, respBodies, delays>>
    /\ UNCHANGED <<pureVars, sharedVars>>

\* The request's context is cancelled; it wakes a blocked select.
Cancel(c) ==
    /\ env.cancels
    /\ pc[c] \notin {"done", "panic"}
    /\ ~ctxDone[c]
    /\ ctxDone' = [ctxDone EXCEPT ![c] = TRUE]
    /\ IF pc[c] = "parked"
       THEN pc' = [pc EXCEPT ![c] = "case"] /\ chosen' = [chosen EXCEPT ![c] = "ctx"]
       ELSE UNCHANGED <<pc, chosen>>
    /\ UNCHANGED <<req, storeLeft, backoff, retries, resp, rerr, delay, timerFired,
                   wasParked, ret, exit, decided, outcomes, sent, respBodies, delays>>
    /\ UNCHANGED <<pureVars, sharedVars>>

\* case <-time.After(delay)
\* A loop that looks at the retry count after the wait: it sleeps, then gives up.
TimerCase_GivesUpAfterWait(c) ==
    /\ pc[c] = "case"
    /\ chosen[c] = "timer"
    /\ retries' = [retries EXCEPT ![c] = @ + 1]
    /\ IF retries[c] + 1 >= tr.rp.MaxRetries
       THEN /\ ret' = [ret EXCEPT ![c] = Returned(resp[c], rerr[c])]
            /\ exit' = [exit EXCEPT ![c] = "decided"]
            /\ pc' = [pc EXCEPT ![c] = "done"]
            /\ UNCHANGED respBodies
       ELSE /\ respBodies' = [respBodies EXCEPT ![c][Len(respBodies[c])] =
                                  drainResponse(resp[c], FALSE).body]
            /\ pc' = [pc EXCEPT ![c] = "attempt"]
            /\ UNCHANGED <<ret, exit>>
    /\ UNCHANGED <<req, ctxDone, storeLeft, backoff, resp, rerr, delay, timerFired, chosen,
                   wasParked, decided, outcomes, sent, delays>>
    /\ UNCHANGED <<pureVars, sharedVars>>

TimerCase(c) ==
    /\ pc[c] = "case"
    /\ chosen[c] = "timer"
    /\ retries' = [retries EXCEPT ![c] = @ + 1]
    /\ \E copyFails \in (IF resp[c].nil \/ ~env.readFails THEN {FALSE} ELSE BOOLEAN) :
        LET drained == drainResponse(resp[c], copyFails)
            reset == resetRequest(req[c])
        IN  /\ respBodies' = [respBodies EXCEPT ![c][Len(respBodies[c])] = drained.body]
            /\ IF drained.err # NilErr
               THEN /\ ret' = [ret EXCEPT ![c] = [resp |-> NilResp, err |-> drained.err]]
                    /\ exit' = [exit EXCEPT ![c] = "drain"]
                    /\ pc' = [pc EXCEPT ![c] = "done"]
               ELSE IF reset.err # NilErr
               THEN /\ ret' = [ret EXCEPT ![c] = [resp |-> NilResp, err |-> reset.err]]
                    /\ exit' = [exit EXCEPT ![c] = "replay"]
                    /\ pc' = [pc EXCEPT ![c] = "done"]
               ELSE /\ pc' = [pc EXCEPT ![c] = "attempt"]
                    /\ UNCHANGED <<ret, exit>>
    /\ UNCHANGED <<req, ctxDone, storeLeft, backoff, resp, rerr, delay, timerFired, chosen,
                   wasParked, decided, outcomes, sent, delays>>
    /\ UNCHANGED <<pureVars, sharedVars>>

\* A cancellation that is taken for the timer: the loop goes on.
CtxCase_GoesOn(c) ==
    /\ pc[c] = "case"
    /\ chosen[c] = "ctx"
    /\ retries' = [retries EXCEPT ![c] = @ + 1]
    /\ pc' = [pc EXCEPT ![c] = "attempt"]
    /\ UNCHANGED <<req, ctxDone, storeLeft, backoff, resp, rerr, delay, timerFired, chosen,
                   wasParked, ret, exit, decided, outcomes, sent, respBodies, delays>>
    /\ UNCHANGED <<pureVars, sharedVars>>

\* case <-r.Context().Done()
CtxCase(c) ==
    /\ pc[c] = "case"
    /\ chosen[c] = "ctx"
    /\ ret' = [ret EXCEPT ![c] = [resp |-> NilResp, err |-> "context"]]
    /\ exit' = [exit EXCEPT ![c] = "cancelled"]
    /\ pc' = [pc EXCEPT ![c] = "done"]
    /\ UNCHANGED <<req, ctxDone, storeLeft, backoff, retries, resp, rerr, delay, timerFired,
                   chosen, wasParked, decided, outcomes, sent, respBodies, delays>>
    /\ UNCHANGED <<pureVars, sharedVars>>

(***************************************************************************)
(* Transport.Set                                                           *)
(***************************************************************************)
NoSetting == [options |-> <<>>, left |-> {}]

\* The fields the option o writes one by one, on a Transport whose policy is
\* rp: those of the policy that WithRetryPolicy assigns to tr.rp.  A write
\* that leaves a field as it is shows to nobody and takes no step of its own.
\* The other options write one word.
StoreFields(o, rp) ==
    IF o.option = "WithRetryPolicy" /\ ~IsZero(o.rp)
    THEN {f \in PolicyFields : o.rp[f] # rp[f]}
    ELSE {}

\* A Set call that has the options opts to apply to the Transport t.
Setting(opts, t) ==
    [options |-> opts, left |-> IF opts = <<>> THEN {} ELSE StoreFields(Head(opts), t.rp)]

\* func (tr *Transport) Set(options ...Option): the next Set call of the run
\* begins.
SetCall ==
    /\ sets < Len(env.setCalls)
    /\ setting = NoSetting
    /\ setting' = Setting(env.setCalls[sets + 1], tr)
    /\ sets' = sets + 1
    /\ UNCHANGED <<env, configured, applied, tr, written, backoffCalls>>
    /\ UNCHANGED <<pureVars, perCallVars>>

\* option(tr), for the next option of the Set call: the option's one write,
\* or one field of the policy that WithRetryPolicy stores.
SetOption ==
    /\ setting.options # <<>>
    /\ LET o == Head(setting.options)
       IN  IF setting.left = {}
           THEN /\ tr' = ApplyOption(tr, o)
                /\ setting' = Setting(Tail(setting.options), tr')
                /\ applied' = Append(applied, o)
           ELSE \E f \in setting.left :
                   /\ tr' = [tr EXCEPT !.rp[f] = o.rp[f]]
                   /\ IF setting.left = {f}
                      THEN /\ setting' = Setting(Tail(setting.options), tr')
                           /\ applied' = Append(applied, o)
                      ELSE /\ setting' = [setting EXCEPT !.left = @ \ {f}]
                           /\ UNCHANGED applied
    /\ UNCHANGED <<env, configured, written, sets, backoffCalls>>
    /\ UNCHANGED <<pureVars, perCallVars>>

(***************************************************************************)
(* One RoundTrip call on a Transport that nothing else uses.               *)
(***************************************************************************)
NoCall == [name |-> "none"]

NoResult == [returned |-> FALSE, value |-> "none"]

\* n RoundTrip calls that have not begun, with requests drawn from requests.
NewCalls(n, requests) ==
    /\ req \in [1..n -> requests]
    /\ ctxDone = [c \in 1..n |-> FALSE]
    /\ pc = [c \in 1..n |-> "idle"]
    /\ storeLeft = [c \in 1..n |-> {}]
    /\ backoff = [c \in 1..n |-> "nil"]
    /\ retries = [c \in 1..n |-> 0]
    /\ resp = [c \in 1..n |-> NilResp]
    /\ rerr = [c \in 1..n |-> NilErr]
    /\ delay = [c \in 1..n |-> I64(0)]
    /\ timerFired = [c \in 1..n |-> FALSE]
    /\ chosen = [c \in 1..n |-> "none"]
    /\ wasParked = [c \in 1..n |-> FALSE]
    /\ ret = [c \in 1..n |-> NoReturn]
    /\ exit = [c \in 1..n |-> "none"]
    /\ decided = [c \in 1..n |-> <<>>]
    /\ outcomes = [c \in 1..n |-> <<>>]
    /\ sent = [c \in 1..n |-> <<>>]
    /\ respBodies = [c \in 1..n |-> <<>>]
    /\ delays = [c \in 1..n |-> <<>>]

Init ==
    /\ goarch \in GoArchs
    /\ fn = NoCall
    /\ fnResult = NoResult
    /\ env = EnvAny
    /\ \E k \in Constructions : configured = k.configured /\ applied = k.applied /\ tr = k.tr
    /\ written = {}
    /\ sets = 0
    /\ backoffCalls = 0
    /\ setting = NoSetting
    /\ NewCalls(1, RequestSamples)

Next ==
    \/ \E c \in Calls : Begin(c)
    \/ \E c \in Calls : StoreTransport(c)
    \/ \E c \in Calls : StoreDefault(c)
    \/ \E c \in Calls : StoreShouldRetry(c)
    \/ \E c \in Calls : StoreBackoff(c)
    \/ \E c \in Calls : Attempt(c)
    \/ \E c \in Calls : Decide(c)
    \/ \E c \in Calls : Select(c)
    \/ \E c \in Calls : TimerFires(c)
    \/ \E c \in Calls : Cancel(c)
    \/ \E c \in Calls : TimerCase(c)
    \/ \E c \in Calls : CtxCase(c)

Spec == Init /\ [][Next]_vars

\* The steps of a RoundTrip call from which its goroutine goes on by itself,
\* the underlying transport returning from every attempt.  (Decide is the
\* remaining one: see SpecLive.)
CallSteps ==
    \/ \E c \in Calls : Begin(c)
    \/ \E c \in Calls : StoreTransport(c)
    \/ \E c \in Calls : StoreDefault(c)
    \/ \E c \in Calls : StoreShouldRetry(c)
    \/ \E c \in Calls : StoreBackoff(c)
    \/ \E c \in Calls : Attempt(c)
    \/ \E c \in Calls : Select(c)
    \/ \E c \in Calls : TimerCase(c)
    \/ \E c \in Calls : CtxCase(c)

\* One RoundTrip call on a Transport built with at most one option, or on
\* the literal, with a policy without jitter: the length of a delay plays no
\* part in whether the call ends.
InitLive ==
    /\ Init
    /\ Len(applied) <= 1
    /\ configured.rp.Jitter = 0

\* The call runs and the timer of every time.After fires; whether the
\* caller cancels is left open.  The last conjunct is WF_vars(Decide(c))
\* written out: Decide(c) is enabled exactly when pc[c] = "decide", and
\* every step of it leaves that position, so that weak fairness of it says
\* that the call does not stay at line 78 forever.
SpecLive ==
    /\ InitLive
    /\ [][Next]_vars
    /\ WF_vars(CallSteps)
    /\ WF_vars(\E c \in Calls : TimerFires(c))
    /\ []<>(\A c \in Calls : pc[c] # "decide")

(***************************************************************************)
(* Several RoundTrip calls on one Transport, and Set calls meanwhile.      *)
(***************************************************************************)
GetRequest == [Body |-> "nil", GetBody |-> "nil"]

SharedPolicy ==
    [ShouldRetry |-> "standard", Backoff |-> "exponential", MinDelay |-> I64(1),
     MaxDelay |-> I64(5), MaxRetries |-> 2, Jitter |-> 0]

OneRetryPolicy == [SharedPolicy EXCEPT !.MaxRetries = 1]

\* The policies that Set calls store over the Transport's.
SlowerPolicy ==
    [ShouldRetry |-> "always", Backoff |-> "exponential", MinDelay |-> I64(2),
     MaxDelay |-> I64(5), MaxRetries |-> 1, Jitter |-> 0]

NoPredicatePolicy ==
    [ShouldRetry |-> "nil", Backoff |-> "exponential", MinDelay |-> I64(1),
     MaxDelay |-> I64(5), MaxRetries |-> 1, Jitter |-> 0]

NoBackoffPolicy ==
    [ShouldRetry |-> "standard", Backoff |-> "nil", MinDelay |-> I64(1),
     MaxDelay |-> I64(5), MaxRetries |-> 1, Jitter |-> 0]

\* The option lists of the Set calls of a run.
SetCallSamples ==
    {<<WithNoRetries>>, <<WithRetryPolicy(SlowerPolicy)>>,
     <<WithRetryPolicy(SlowerPolicy), WithNoRetries>>}

QuietEnv ==
    [statuses |-> {503}, connFails |-> FALSE, readFails |-> FALSE, cancels |-> FALSE,
     setCalls |-> <<>>]

\* The runs of the shared Transport: how it was built, how many calls use it
\* at once, and what surrounds them.
\*  - MaxCalls calls at once, of a target that is down or up;
\*  - two calls at once of a target that is down, and a Set call that
\*    forbids retries or stores another policy;
\*  - the literal &Transport{} used by two calls at once while Set gives it
\*    a transport;
\*  - a policy without backoff, callers that cancel, responses whose body
\*    fails to read, and a Set call that stores a policy without predicate.
SharedRuns ==
    {[options |-> <<WithRetryPolicy(OneRetryPolicy)>>, literal |-> FALSE, calls |-> MaxCalls,
      env |-> [QuietEnv EXCEPT !.statuses = {200, 503}]]}
    \cup
    {[options |-> <<WithRetryPolicy(SharedPolicy)>>, literal |-> FALSE, calls |-> 2,
      env |-> [QuietEnv EXCEPT !.setCalls = <<opts>>]] : opts \in SetCallSamples}
    \cup
    {[options |-> <<>>, literal |-> TRUE, calls |-> 2,
      env |-> [QuietEnv EXCEPT !.statuses = {200}, !.setCalls = <<(<<WithTransport("custom")>>)>>]],
     [options |-> <<WithRetryPolicy(NoBackoffPolicy)>>, literal |-> FALSE, calls |-> 2,
      env |-> [QuietEnv EXCEPT !.readFails = TRUE, !.cancels = TRUE,
                               !.setCalls = <<(<<WithRetryPolicy(NoPredicatePolicy)>>)>>]]}

\* The loop never reaches the retry indexes on which the builds differ.
InitShared ==
    /\ goarch = "amd64"
    /\ fn = NoCall
    /\ fnResult = NoResult
    /\ \E run \in SharedRuns :
        /\ env = run.env
        /\ configured = ApplyOptions(TransportLiteral, run.options)
        /\ applied = run.options
        /\ tr = IF run.literal THEN TransportLiteral ELSE New(run.options)
        /\ NewCalls(run.calls, {GetRequest})
    /\ written = {}
    /\ sets = 0
    /\ backoffCalls = 0
    /\ setting = NoSetting

NextShared ==
    \/ Next
    \/ SetCall
    \/ SetOption

SpecShared == InitShared /\ [][NextShared]_vars

(***************************************************************************)
(* The pure functions of policy.go, each applied to inputs drawn from a    *)
(* bounded set.                                                            *)
(***************************************************************************)
NoRoundTrip ==
    /\ env = EnvAny
    /\ configured = TransportLiteral
    /\ applied = <<>>
    /\ tr = TransportLiteral
    /\ written = {}
    /\ sets = 0
    /\ backoffCalls = 0
    /\ setting = NoSetting
    /\ NewCalls(0, RequestSamples)

ShouldRetryInputs ==
    {[name |-> "StandardShouldRetry", r |-> rsp, err |-> e] :
        rsp \in {NilResp} \cup {Response(c) : c \in 0..MaxStatusCode},
        e \in {NilErr, "transport"}}

InitShouldRetry ==
    /\ goarch \in GoArchs
    /\ fn \in ShouldRetryInputs
    /\ fnResult = NoResult
    /\ NoRoundTrip

CallShouldRetry ==
    /\ fn.name = "StandardShouldRetry"
    /\ ~fnResult.returned
    /\ fnResult' = [returned |-> TRUE, value |-> StandardShouldRetry(fn.r, fn.err)]
    /\ UNCHANGED <<goarch, fn>>
    /\ UNCHANGED callVars

NextShouldRetry == CallShouldRetry

SpecShouldRetry == InitShouldRetry /\ [][NextShouldRetry]_vars

DurationSamples ==
    {I64(0), I64(1), I64(3), Mul64(I64(500), I64(1000000)), Mul64(I64(5), I64(1000000000)),
     HugeDelay, MaxInt64}

BackoffInputs ==
    {f \in [name : {"ExponentialBackoff"}, minDelay : DurationSamples,
            maxDelay : DurationSamples, retry : 0..MaxRetryIndex] :
        Le64(f.minDelay, f.maxDelay)}

InitBackoff ==
    /\ goarch \in GoArchs
    /\ fn \in BackoffInputs
    /\ fnResult = NoResult
    /\ NoRoundTrip

CallBackoff ==
    /\ fn.name = "ExponentialBackoff"
    /\ ~fnResult.returned
    /\ fnResult' = [returned |-> TRUE,
                    value |-> ExponentialBackoff(fn.minDelay, fn.maxDelay, fn.retry)]
    /\ UNCHANGED <<goarch, fn>>
    /\ UNCHANGED callVars

NextBackoff == CallBackoff

SpecBackoff == InitBackoff /\ [][NextBackoff]_vars

(***************************************************************************)
(* Properties                                                              *)
(***************************************************************************)
Last(q) == q[Len(q)]

\* The predicate of the Transport's policy accepts the outcome o as retryable.
Retryable(o) == EvalShouldRetry(tr.rp.ShouldRetry, o.resp, o.err) = "true"

\* The predicate of the Transport's policy rejects the outcome o.
Rejected(o) == EvalShouldRetry(tr.rp.ShouldRetry, o.resp, o.err) = "false"

AllRetryable(c) == \A k \in 1..Len(outcomes[c]) : Retryable(outcomes[c][k])

\* C1 as stated: when every attempt yields a retryable outcome and the request
\* is never cancelled, RoundTrip makes exactly MaxRetries + 1 attempts and
\* returns the outcome of the last one.
C1_AlwaysRetryable_AsStated ==
    \A c \in Calls :
        (pc[c] = "done" /\ tr.rp.MaxRetries >= 0 /\ ~ctxDone[c] /\ AllRetryable(c))
            => (Len(outcomes[c]) = tr.rp.MaxRetries + 1 /\ ret[c] = Last(outcomes[c]))

\* C1, amended: when every attempt yields a retryable outcome, the request is
\* never cancelled, and neither the draining of a response nor the
\* regeneration of the request body fails, RoundTrip makes exactly
\* MaxRetries + 1 attempts and returns the outcome of the last one.
C1_AlwaysRetryable ==
    \A c \in Calls :
        (pc[c] = "done" /\ tr.rp.MaxRetries >= 0 /\ ~ctxDone[c] /\ AllRetryable(c)
           /\ exit[c] \notin {"drain", "replay"})
            => (Len(outcomes[c]) = tr.rp.MaxRetries + 1 /\ ret[c] = Last(outcomes[c]))

C1_Witness ==
    \E c \in Calls :
        /\ pc[c] = "done"
        /\ ~ctxDone[c]
        /\ AllRetryable(c)
        /\ tr.rp.MaxRetries >= 2
        /\ Len(outcomes[c]) = tr.rp.MaxRetries + 1
        /\ ret[c] = Last(outcomes[c])

\* C2: once attempt k (0-indexed) yields an outcome the predicate rejects, it
\* is the last attempt (the underlying transport has been invoked k + 1
\* times, and the k attempts before it were retryable), and RoundTrip returns
\* that outcome.  It holds whether or not the request is cancelled meanwhile.
C2_ReturnsFirstRejected ==
    \A c \in Calls : \A k \in 1..Len(outcomes[c]) :
        Rejected(outcomes[c][k])
            => /\ k = Len(outcomes[c])
               /\ \A j \in 1..(k - 1) : Retryable(outcomes[c][j])
               /\ pc[c] \in {"decide", "done"}
               /\ pc[c] = "done" => ret[c] = outcomes[c][k]

C2_Witness ==
    \E c \in Calls :
        /\ pc[c] = "done"
        /\ ~ctxDone[c]
        /\ Len(outcomes[c]) = 3
        /\ Rejected(outcomes[c][3])
        /\ ret[c] = outcomes[c][3]
        /\ tr.rp.MaxRetries >= 2

\* C3 as stated: on every retried attempt of a request with a body and a
\* GetBody, the request handed to the underlying transport has an unread body.
C3_FreshBodyOnRetry ==
    \A c \in Calls :
        (req[c].Body # "nil" /\ req[c].GetBody # "nil")
            => \A k \in 2..Len(sent[c]) : sent[c][k] = "unread"

\* C4: a cancellation that arrives while the select statement is blocked,
\* before the timer has fired, makes RoundTrip return (nil, ctx.Err()); the
\* underlying transport is not invoked again.
C4_CancelDuringWait ==
    \A c \in Calls :
        (wasParked[c] /\ chosen[c] = "ctx")
            => \/ pc[c] = "case" /\ Len(outcomes[c]) = retries[c] + 1
               \/ /\ pc[c] = "done"
                  /\ ret[c] = [resp |-> NilResp, err |-> "context"]
                  /\ Len(outcomes[c]) = retries[c] + 1

C4_Witness ==
    \E c \in Calls :
        /\ wasParked[c]
        /\ chosen[c] = "ctx"
        /\ ~timerFired[c]
        /\ pc[c] = "done"
        /\ ret[c] = [resp |-> NilResp, err |-> "context"]
        /\ Len(outcomes[c]) = 2

\* C5 as stated: a policy whose MaxRetries is 0 makes RoundTrip invoke the
\* underlying transport exactly once.
C5_ZeroMaxRetries_AsStated ==
    \A c \in Calls :
        (pc[c] = "done" /\ configured.rp.MaxRetries = 0) => Len(outcomes[c]) = 1

\* C5, amended: a policy whose MaxRetries is 0 and that is not the zero
\* policy makes RoundTrip invoke the underlying transport exactly once,
\* whatever the outcome.
C5_ZeroMaxRetries ==
    \A c \in Calls :
        (configured.rp.MaxRetries = 0 /\ ~IsZero(configured.rp))
            => /\ Len(outcomes[c]) <= 1
               /\ pc[c] = "done" => (Len(outcomes[c]) = 1 /\ ret[c] = outcomes[c][1])

C5_Witness ==
    \E c \in Calls :
        /\ pc[c] = "done"
        /\ configured.rp.MaxRetries = 0
        /\ ~IsZero(configured.rp)
        /\ configured.rp.ShouldRetry = "standard"
        /\ Len(outcomes[c]) = 1
        /\ Retryable(outcomes[c][1])

\* C6: when the predicate rejects the outcome of an attempt, RoundTrip returns
\* that outcome at once: no backoff is computed and no wait begins after that
\* attempt, its response is not drained, and no further attempt is made.
C6_RejectedReturnsAtOnce ==
    \A c \in Calls :
        (Len(outcomes[c]) > 0 /\ pc[c] # "decide" /\ Rejected(Last(outcomes[c])))
            => /\ pc[c] = "done"
               /\ ret[c] = Last(outcomes[c])
               /\ Len(delays[c]) = Len(outcomes[c]) - 1
               /\ retries[c] = Len(outcomes[c]) - 1
               /\ Last(respBodies[c]) \in {"open", "none"}

C6_Witness ==
    \E c \in Calls :
        /\ pc[c] = "done"
        /\ tr.rp.ShouldRetry = "standard"
        /\ tr.rp.MaxRetries >= 1
        /\ outcomes[c] = <<[resp |-> Response(404), err |-> NilErr]>>
        /\ ret[c] = [resp |-> Response(404), err |-> NilErr]
        /\ respBodies[c] = <<"open">>
        /\ delays[c] = <<>>

RetryStatusCodes == {0, 408, 429, 500, 502, 503, 504}

\* C7: StandardShouldRetry returns true for every non-nil error, whatever the
\* response; for a nil error and a response it returns true exactly when the
\* status code is one of 0, 408, 429, 500, 502, 503, 504.
C7_StandardShouldRetry ==
    fnResult.returned
        => /\ fn.err # NilErr => fnResult.value = "true"
           /\ (fn.err = NilErr /\ ~fn.r.nil)
                => fnResult.value =
                     (IF fn.r.StatusCode \in RetryStatusCodes THEN "true" ELSE "false")

C7_Witness ==
    /\ fnResult.returned
    /\ fn.err = NilErr
    /\ fn.r = Response(503)
    /\ fnResult.value = "true"

\* C8 as stated: StandardShouldRetry yields a boolean for every combination of
\* response and error, and true for no response and no error.
C8_AbsentResponseRetryable ==
    fnResult.returned
        => /\ fnResult.value \in {"true", "false"}
           /\ (fn.r.nil /\ fn.err = NilErr) => fnResult.value = "true"

\* min(x * 2^i, maxDelay) on the integers, for 0 <= x and 0 <= maxDelay < 2^63:
\* x is doubled i times, and the doubling stops at maxDelay.
RECURSIVE CappedDelay(_, _, _)
CappedDelay(x, maxDelay, i) ==
    IF ~ULt64(x, maxDelay) THEN maxDelay
    ELSE IF i = 0 \/ x = I64(0) THEN x
    ELSE CappedDelay(Add64(x, x), maxDelay, i - 1)

\* C9 as stated: for 0 <= minDelay <= maxDelay and every retry index i >= 0,
\* ExponentialBackoff returns exactly min(minDelay * 2^i, maxDelay), which is
\* neither negative nor above maxDelay.
C9_BackoffIsCappedExponential ==
    (fnResult.returned /\ Le64(I64(0), fn.minDelay))
        => /\ fnResult.value = CappedDelay(fn.minDelay, fn.maxDelay, fn.retry)
           /\ Le64(I64(0), fnResult.value)
           /\ Le64(fnResult.value, fn.maxDelay)

\* x lies in [capped * (1 - j), capped * (1 + j)] and in [0, maxDelay], for
\* the jitter j = jitter / 100.
InJitterRange(x, capped, maxDelay, jitter) ==
    /\ Le64(I64(0), x)
    /\ Le64(x, maxDelay)
    /\ Le64(PctCeil(capped, 100 - jitter), x)
    /\ Le64(Sub64(x, capped), PctFloor(capped, jitter))

\* C10 as stated: with a jitter in (0,1), every delay the exponential backoff
\* gives RoundTrip to wait lies in [capped*(1-j), capped*(1+j)] and in
\* [0, MaxDelay], where capped = min(MinDelay * 2^i, MaxDelay) for the retry
\* index i.
C10_JitteredDelayInRange ==
    \A c \in Calls :
        (backoff[c] = "exponential" /\ tr.rp.Jitter > 0)
            => \A k \in 1..Len(delays[c]) :
                  InJitterRange(delays[c][k].delay,
                                CappedDelay(tr.rp.MinDelay, tr.rp.MaxDelay, delays[c][k].retry),
                                tr.rp.MaxDelay, tr.rp.Jitter)

\* The call c has passed the checks in front of the loop.
InLoop(c) == pc[c] \in {"attempt", "decide", "select", "parked", "case", "done", "panic"}

\* New returned the Transport: its underlying transport was set before any
\* RoundTrip call.
BuiltByNew == tr.tr # "nil" /\ "tr" \notin written

\* predicate = standard, backoff = exponential, maxRetries = 3,
\* minDelay = 500 ms = 500000000 ns, maxDelay = 5 s = 5000000000 ns.
IsBuiltInDefault(rp) ==
    /\ rp.ShouldRetry = "standard"
    /\ rp.Backoff = "exponential"
    /\ rp.MaxRetries = 3
    /\ rp.MinDelay = <<0, 101, 205, 29, 0, 0, 0, 0>>
    /\ rp.MaxDelay = <<0, 242, 5, 42, 1, 0, 0, 0>>

\* C11 as stated: a Transport whose options left the zero policy has the
\* built-in default policy, from New on and, built as a literal, from the
\* first RoundTrip's checks on, and a RoundTrip whose attempts all yield
\* retryable outcomes makes exactly 4 attempts.
C11_ZeroPolicyIsDefault_AsStated ==
    IsZero(configured.rp)
        => \A c \in Calls :
              /\ (BuiltByNew \/ InLoop(c)) => IsBuiltInDefault(tr.rp)
              /\ (pc[c] = "done" /\ AllRetryable(c)) => Len(outcomes[c]) = 4

\* C11, amended: as above, and the 4 attempts are made by a RoundTrip that
\* returns from its deciding step, that is, one that is not ended by a
\* cancellation during a wait nor by a failing drain or body regeneration.
C11_ZeroPolicyIsDefault ==
    IsZero(configured.rp)
        => \A c \in Calls :
              /\ (BuiltByNew \/ InLoop(c)) => IsBuiltInDefault(tr.rp)
              /\ (pc[c] = "done" /\ AllRetryable(c) /\ exit[c] = "decided")
                    => (Len(outcomes[c]) = 4 /\ ret[c] = Last(outcomes[c]))

C11_Witness ==
    \E c \in Calls :
        /\ IsZero(configured.rp)
        /\ written = {"tr", "rp"}
        /\ IsBuiltInDefault(tr.rp)
        /\ pc[c] = "done"
        /\ exit[c] = "decided"
        /\ AllRetryable(c)
        /\ Len(outcomes[c]) = 4
        /\ ret[c] = [resp |-> Response(503), err |-> NilErr]

\* C12: a policy that is not zero and has no predicate never retries: one
\* attempt, whose outcome is returned as it is, and no panic.  A policy with
\* a predicate and no backoff function retries as any other (MaxRetries + 1
\* attempts when every outcome is retryable and the call returns from its
\* deciding step), and every delay it waits is zero.
C12_MissingPredicateOrBackoff ==
    \A c \in Calls :
        /\ (configured.rp.ShouldRetry = "nil" /\ ~IsZero(configured.rp))
              => /\ Len(outcomes[c]) <= 1
                 /\ pc[c] # "panic"
                 /\ pc[c] = "done" => (exit[c] = "decided" /\ ret[c] = outcomes[c][1])
        /\ (configured.rp.ShouldRetry # "nil" /\ configured.rp.Backoff = "nil")
              => /\ \A k \in 1..Len(delays[c]) : delays[c][k].delay = I64(0)
                 /\ pc[c] \in {"select", "parked", "case"} => delay[c] = I64(0)
                 /\ (pc[c] = "panic") => (resp[c].nil /\ rerr[c] = NilErr)
                 /\ (pc[c] = "done" /\ exit[c] = "decided" /\ AllRetryable(c)
                       /\ configured.rp.MaxRetries >= 0)
                       => /\ Len(outcomes[c]) = configured.rp.MaxRetries + 1
                          /\ Len(delays[c]) = configured.rp.MaxRetries

C12_Witness ==
    \E c \in Calls :
        /\ configured.rp.ShouldRetry = "standard"
        /\ configured.rp.Backoff = "nil"
        /\ configured.rp.MaxRetries = MaxRetriesBound
        /\ pc[c] = "done"
        /\ exit[c] = "decided"
        /\ AllRetryable(c)
        /\ Len(outcomes[c]) = MaxRetriesBound + 1
        /\ Len(delays[c]) = MaxRetriesBound
        /\ \A k \in 1..Len(delays[c]) : delays[c][k].delay = I64(0)

C12_Witness_NoPredicate ==
    \E c \in Calls :
        /\ configured.rp.ShouldRetry = "nil"
        /\ configured.rp.MaxRetries = MaxRetriesBound
        /\ pc[c] = "done"
        /\ outcomes[c] = <<[resp |-> Response(503), err |-> NilErr]>>
        /\ ret[c] = [resp |-> Response(503), err |-> NilErr]

\* C13: when the draining of a response that is about to be retried fails,
\* RoundTrip returns the drain error and no response, the underlying
\* transport is not invoked again, and the body of that response is closed
\* all the same.
C13_DrainErrorIsFatal ==
    \A c \in Calls :
        /\ exit[c] = "drain"
              => /\ pc[c] = "done"
                 /\ ret[c] = [resp |-> NilResp, err |-> "drain"]
                 /\ Last(respBodies[c]) = "closed"
                 /\ Len(outcomes[c]) = retries[c]
        /\ \A k \in 1..Len(respBodies[c]) :
              respBodies[c][k] = "closed" => (k = Len(respBodies[c]) /\ exit[c] = "drain")

C13_Witness ==
    \E c \in Calls :
        /\ pc[c] = "done"
        /\ exit[c] = "drain"
        /\ tr.rp.MaxRetries >= 2
        /\ Len(outcomes[c]) = 2
        /\ Retryable(outcomes[c][2])
        /\ respBodies[c] = <<"drained", "closed">>
        /\ ret[c] = [resp |-> NilResp, err |-> "drain"]

\* C14 as stated: a request with a body and no GetBody is never handed to the
\* underlying transport again with the body an earlier attempt consumed.
C14_NoResendOfConsumedBody ==
    \A c \in Calls :
        (req[c].Body # "nil" /\ req[c].GetBody = "nil")
            => \A k \in 2..Len(sent[c]) : sent[c][k] # "consumed"

\* C17: a RoundTrip that returns from its deciding step (the predicate
\* rejected the outcome, or retries >= MaxRetries) returns the response and
\* the error of the last attempt of the underlying transport, both as they
\* came: a retryable response that exhausted the retries is returned as that
\* response with no error, a transport error as that error.
C17_ReturnsLastOutcomeVerbatim ==
    \A c \in Calls :
        exit[c] = "decided"
            => /\ pc[c] = "done"
               /\ Len(outcomes[c]) = retries[c] + 1
               /\ ret[c] = Last(outcomes[c])
               /\ (Rejected(Last(outcomes[c])) \/ retries[c] >= tr.rp.MaxRetries)

C17_Witness ==
    \E c \in Calls :
        /\ exit[c] = "decided"
        /\ tr.rp.ShouldRetry = "standard"
        /\ tr.rp.MaxRetries = 2
        /\ retries[c] = 2
        /\ Last(outcomes[c]) = [resp |-> Response(503), err |-> NilErr]
        /\ ret[c] = [resp |-> Response(503), err |-> NilErr]

C17_Witness_TransportError ==
    \E c \in Calls :
        /\ exit[c] = "decided"
        /\ tr.rp.MaxRetries = 2
        /\ retries[c] = 2
        /\ ret[c] = [resp |-> NilResp, err |-> "transport"]

\* C18: on a Transport that New built from options of which WithNoRetries
\* is the last, a RoundTrip invokes the underlying transport exactly once
\* and returns what it gave, whatever that is and whatever policy the
\* earlier options set; it computes no delay.
C18_WithNoRetriesLast ==
    (applied # <<>> /\ Last(applied) = WithNoRetries)
        => \A c \in Calls :
              /\ Len(outcomes[c]) <= 1
              /\ delays[c] = <<>>
              /\ pc[c] # "panic"
              /\ pc[c] = "done" => (Len(outcomes[c]) = 1 /\ ret[c] = outcomes[c][1])

C18_Witness ==
    \E c \in Calls :
        /\ Len(applied) = 2
        /\ applied[1].option = "WithRetryPolicy"
        /\ applied[1].rp.ShouldRetry = "always"
        /\ applied[1].rp.MaxRetries >= 1
        /\ applied[2] = WithNoRetries
        /\ pc[c] = "done"
        /\ outcomes[c] = <<[resp |-> Response(503), err |-> NilErr]>>
        /\ ret[c] = [resp |-> Response(503), err |-> NilErr]

\* C19: when an attempt is issued, the body of the response of every earlier
\* attempt has been read to its end and closed (or there was no response):
\* only the response of the last attempt can have a live body.
C19_OneLiveBody ==
    \A c \in Calls : \A k \in 1..(Len(respBodies[c]) - 1) :
        respBodies[c][k] \in {"drained", "none"}

C19_Witness ==
    \E c \in Calls :
        /\ pc[c] = "decide"
        /\ respBodies[c] = <<"drained", "drained", "open">>

\* C20 as stated: when RoundTrip has returned, whichever way, the body of
\* every response an attempt produced is closed, but for the response that
\* was returned to the caller.
C20_BodiesReleasedOnExit ==
    \A c \in Calls :
        pc[c] = "done"
            => \A k \in 1..Len(respBodies[c]) :
                  respBodies[c][k] = "open"
                      => (k = Len(respBodies[c]) /\ ret[c].resp = outcomes[c][k].resp)

\* C15 as stated: RoundTrip calls write neither the policy nor the
\* underlying transport of their Transport, and all the evaluations of line
\* 78 by one call read the same predicate and the same MaxRetries, whatever
\* other RoundTrip calls and Set calls do meanwhile.
C15_PolicyFixedDuringLoop ==
    /\ written = {}
    /\ \A c \in Calls : \A j, k \in 1..Len(decided[c]) : decided[c][j] = decided[c][k]

\* C16 as stated: on a Transport that serves several calls, the delay a
\* call computes before its k-th retry is the capped exponential of the
\* MinDelay and MaxDelay it read and of k - 1, the retries of that call alone
\* (zero under the fallback for a missing backoff): what the other calls have
\* retried does not enter it.
C16_DelayOfOwnRetriesOnly ==
    \A c \in Calls : \A k \in 1..Len(delays[c]) :
        /\ backoff[c] = "exponential"
              => delays[c][k].delay =
                    CappedDelay(delays[c][k].minDelay, delays[c][k].maxDelay, k - 1)
        /\ backoff[c] = "zero" => delays[c][k].delay = I64(0)

\* C21 as stated: the index of the exponential of the k-th delay a RoundTrip
\* call computes is k - 1, the retries that call has performed: its waits
\* use the indexes 0, 1, 2, ... in that order.  (The func of the nil
\* fallback has no index.)
C21_IndexIsRetriesPerformed ==
    \A c \in Calls : \A k \in 1..Len(delays[c]) :
        backoff[c] = "exponential" => delays[c][k].retry = k - 1

\* C22 as stated: a RoundTrip call that has returned has computed as many
\* delays, and waited as many times, as it has performed retries.
C22_WaitsEqualRetries_AsStated ==
    \A c \in Calls : pc[c] = "done" => Len(delays[c]) = Len(outcomes[c]) - 1

\* C22, amended: a RoundTrip call that returns at line 79, whether the
\* predicate refused or the retries are exhausted, has computed no delay
\* after its last attempt: it has computed one delay, and waited once, per
\* retry.  A call that returns from a wait (a cancellation, a failing drain
\* or a failing body regeneration) has waited once more than it has retried.
C22_NoWaitBeforeGivingUp ==
    \A c \in Calls :
        /\ Len(delays[c]) \in {Len(outcomes[c]) - 1, Len(outcomes[c])}
        /\ (pc[c] = "done" /\ exit[c] = "decided")
              => /\ Len(delays[c]) = Len(outcomes[c]) - 1
                 /\ Len(delays[c]) = retries[c]
        /\ (pc[c] = "done" /\ exit[c] # "decided") => Len(delays[c]) = Len(outcomes[c])

C22_Witness ==
    \E c \in Calls :
        /\ pc[c] = "done"
        /\ exit[c] = "decided"
        /\ tr.rp.MaxRetries = MaxRetriesBound
        /\ retries[c] = tr.rp.MaxRetries
        /\ Len(outcomes[c]) = MaxRetriesBound + 1
        /\ AllRetryable(c)
        /\ Len(delays[c]) = MaxRetriesBound

\* C23: a request with a body whose GetBody returns an error is handed to
\* the underlying transport once: the first replay step, reached when the
\* timer has fired and the response is drained, ends RoundTrip with
\* (nil, the error of GetBody).
C23_GetBodyErrorIsFatal ==
    \A c \in Calls :
        (req[c].Body # "nil" /\ req[c].GetBody = "err")
            => /\ Len(outcomes[c]) <= 1
               /\ (retries[c] >= 1 /\ exit[c] # "drain")
                     => /\ pc[c] = "done"
                        /\ retries[c] = 1
                        /\ ret[c] = [resp |-> NilResp, err |-> "getbody"]

C23_Witness ==
    \E c \in Calls :
        /\ req[c].GetBody = "err"
        /\ pc[c] = "done"
        /\ ~ctxDone[c]
        /\ outcomes[c] = <<[resp |-> Response(503), err |-> NilErr]>>
        /\ respBodies[c] = <<"drained">>
        /\ ret[c] = [resp |-> NilResp, err |-> "getbody"]

\* C24 as stated: a POST request with a body and no GetBody whose first
\* three attempts fail retryably and whose fourth attempt succeeds: RoundTrip
\* returns the response of the fourth attempt with no error, and the fourth
\* attempt was handed the request's body unread, so that the target, which
\* echoes what it receives, answers with the original body.
C24_LiteralPostIsRetried ==
    \A c \in Calls :
        (/\ pc[c] = "done"
         /\ req[c].Body # "nil"
         /\ req[c].GetBody = "nil"
         /\ Len(outcomes[c]) = 4
         /\ \A k \in 1..3 : Retryable(outcomes[c][k])
         /\ outcomes[c][4] = [resp |-> Response(200), err |-> NilErr])
            => /\ ret[c] = [resp |-> Response(200), err |-> NilErr]
               /\ sent[c][4] = "unread"

\* The position of the last option of the kind name in options, 0 if none.
LastOption(options, name) ==
    LET at == {k \in 1..Len(options) : options[k].option = name}
    IN  IF at = {} THEN 0 ELSE CHOOSE k \in at : \A j \in at : j <= k

\* The policy the claim gives a Transport built with options, of which one
\* at least is a WithRetryPolicy: that of the last WithRetryPolicy, its
\* predicate replaced by "never" if a WithNoRetries follows it; a zero
\* policy stands for the default one.
ClaimedPolicy(options) ==
    LET k == LastOption(options, "WithRetryPolicy")
        given == options[k].rp
        rp == IF LastOption(options, "WithNoRetries") > k
              THEN [given EXCEPT !.ShouldRetry = "never"]
              ELSE given
    IN  IF IsZero(rp) THEN defaultRetryPolicy ELSE rp

\* The underlying transport the claim gives it: that of the last
\* WithTransport, http.DefaultTransport if there is none.
ClaimedTransport(options) ==
    LET k == LastOption(options, "WithTransport")
    IN  IF k = 0 THEN "DefaultTransport" ELSE options[k].tr

\* C25 as stated: a Transport built by New(o1, ..., on) that no RoundTrip
\* has used yet has the policy of the last WithRetryPolicy (with the
\* predicate "never" if a WithNoRetries follows it) and the underlying
\* transport of the last WithTransport.
C25_LaterOptionOverrides ==
    (BuiltByNew /\ sets = 0 /\ \A c \in Calls : pc[c] = "idle")
        => /\ tr.tr = ClaimedTransport(applied)
           /\ LastOption(applied, "WithRetryPolicy") > 0 => tr.rp = ClaimedPolicy(applied)

\* What New does instead: WithRetryPolicy ignores a zero policy, so that the
\* policy is that of the last WithRetryPolicy whose policy is not zero.
LastPolicyGiven(options) ==
    LET at == {k \in 1..Len(options) :
                  options[k].option = "WithRetryPolicy" /\ ~IsZero(options[k].rp)}
    IN  IF at = {} THEN 0 ELSE CHOOSE k \in at : \A j \in at : j <= k

C25_LastNonZeroPolicy ==
    (BuiltByNew /\ sets = 0 /\ \A c \in Calls : pc[c] = "idle")
        => /\ tr.tr = ClaimedTransport(applied)
           /\ LastPolicyGiven(applied) > 0
                 => LET given == applied[LastPolicyGiven(applied)].rp
                    IN  tr.rp = IF LastOption(applied, "WithNoRetries") > LastPolicyGiven(applied)
                                THEN [given EXCEPT !.ShouldRetry = "never"]
                                ELSE given

\* C26: a RoundTrip call hands the request to the underlying transport at
\* most max(MaxRetries, 0) + 1 times, once only if MaxRetries is negative,
\* and, when every attempt returns and every timer fires, the call ends:
\* it returns, or the predicate it calls panics.
C26_AttemptBound ==
    \A c \in Calls :
        /\ Len(outcomes[c]) <= (IF tr.rp.MaxRetries > 0 THEN tr.rp.MaxRetries ELSE 0) + 1
        /\ (InLoop(c) /\ tr.rp.MaxRetries < 0) => Len(outcomes[c]) <= 1
        /\ (pc[c] \in {"done", "panic"} /\ tr.rp.MaxRetries < 0) => Len(outcomes[c]) = 1

C26_Ended == \A c \in Calls : pc[c] \in {"done", "panic"}

C26_TerminatesWithinBound == []C26_AttemptBound /\ <>C26_Ended

C26_Witness ==
    \E c \in Calls :
        /\ pc[c] = "done"
        /\ tr.rp.ShouldRetry = "always"
        /\ tr.rp.MaxRetries = -1
        /\ outcomes[c] = <<[resp |-> Response(503), err |-> NilErr]>>
        /\ ret[c] = [resp |-> Response(503), err |-> NilErr]

C26_Witness_Exhausted ==
    \E c \in Calls :
        /\ pc[c] = "done"
        /\ exit[c] = "decided"
        /\ tr.rp.ShouldRetry = "always"
        /\ tr.rp.MaxRetries = MaxRetriesBound
        /\ Len(outcomes[c]) = MaxRetriesBound + 1

\* C27 as stated: a select statement that is reached when the request's
\* context is already cancelled proceeds with the case of the context, so
\* that RoundTrip returns the cancellation error and makes no further
\* attempt, whatever the delay.
C27_CancelledBeforeWait ==
    [][\A c \in Calls :
          (pc[c] = "select" /\ ctxDone[c] /\ pc'[c] = "case") => chosen'[c] = "ctx"]_vars

====
